---- MODULE Spec2Model ----
(***************************************************************************)
(* Booking flow of the guesthouse API: availability check, guest booking   *)
(* creation, gated payment initialisation, webhook reconciliation and the  *)
(* admin update / delete of bookings (src/src/services/booking.service.ts).*)
(* Every await of a service function is a point where another request may  *)
(* run, so each function is a sequence of steps, one per database or       *)
(* gateway round trip.                                                     *)
(***************************************************************************)
EXTENDS Integers, Sequences, FiniteSets, TLC

\* ---------------------------------------------------------------- bounds
MaxBookings == 2     \* bookings ever created (ids are never reused)

\* --------------------------------------------------------------- inputs
\* dates: getTime() counted in half days; three instants, enough for ranges
\* that coincide, nest and abut
Days == {0, 1, 2}
\* 1000 * 3600 * 24 in that unit
TicksPerDay == 2
Procs == {"r1", "r2"}                 \* requests being served at once
BookingIds == 1..MaxBookings
Refs == 1..MaxBookings                \* references the gateway hands out
NoRef == 0                            \* paymentReference NULL
NoId == 0

\* request date ranges a guest sends
DateRanges == {d \in Days \X Days : d[1] < d[2]}

\* ------------------------------------------------------------- constants
SecretKey == "PAYSTACK_SECRET_KEY"
ForgedKey == "other key"
Events == {"charge.success", "charge.failed"}
\* enum PaymentStatus
Statuses == {"PENDING", "PAID", "CANCELLED", "FAILED"}

\* ---------------------------------------------------- errors and results
None == <<>>
Ok == <<"OK">>
ConflictError == <<"Conflict:", "The selected dates are no longer available.">>
InvalidSignatureError == <<"Invalid Paystack signature.">>
NotFoundError(reference) ==
    <<"Booking with reference", ToString(reference), "not found.">>
RaceLostError == <<"Room was booked by another user during payment.">>
GatewayError == <<"Request failed">>
RecordNotFoundError == <<"Record to update not found.">>
UniqueConstraintError == <<"Unique constraint failed on the fields: (paymentReference)">>
MissingInformationError == <<"Missing required booking information.">>
InvalidDateError == <<"Provided Date object is invalid.">>

\* error.message.startsWith("Conflict:")
StartsWithConflict(message) == Len(message) > 0 /\ Head(message) = "Conflict:"

\* ------------------------------------------------------------------ state
VARIABLES
    rooms,         \* the Room table (ids); this flow only reads it
    bookings,      \* the Booking table: id -> row, for the rows that exist
    nextId,        \* the SERIAL of Booking.id
    nextRef,       \* the next reference the gateway will issue
    gatewayCalls,  \* what was posted to transaction/initialize: booking id, amount
    pc,            \* where each request is
    req,           \* its input
    booking,       \* the row it read or created (its id and the fields it uses)
    isAvailable,   \* the result of its checkAvailability
    result,        \* what it returned or threw
    concurrent     \* history: the two requests' latest calls overlapped in time

vars == <<rooms, bookings, nextId, nextRef, gatewayCalls, pc, req, booking,
          isAvailable, result, concurrent>>

NoReq == [op |-> "none"]
NoBooking == [id |-> NoId]

InFlight(p) == pc[p] \notin {"idle", "done"}
Other(p) == CHOOSE q \in Procs : q # p

\* rows the requests in flight may still insert
Reserved == Cardinality({p \in Procs : pc[p] \in {"cgbCreate", "ipCreate"}})

\* ------------------------------------------------------ checkAvailability
\* mutant: the interval test with closed ends
OverlapsClosed(b, checkIn, checkOut) == b.checkIn <= checkOut /\ b.checkOut >= checkIn

Overlaps(b, checkIn, checkOut) == b.checkIn < checkOut /\ b.checkOut > checkIn

\* mutant: every booking that is not FAILED or CANCELLED blocks the calendar
ConflictingHolds(table, roomId, checkIn, checkOut) ==
    {id \in DOMAIN table :
        /\ table[id].roomId = roomId
        /\ table[id].status \in {"PAID", "PENDING"}
        /\ Overlaps(table[id], checkIn, checkOut)}

\* mutant: the query has no roomId condition
ConflictingAnyRoom(table, roomId, checkIn, checkOut) ==
    {id \in DOMAIN table :
        /\ table[id].status = "PAID"
        /\ Overlaps(table[id], checkIn, checkOut)}

ConflictingBookings(table, roomId, checkIn, checkOut) ==
    {id \in DOMAIN table :
        /\ table[id].roomId = roomId
        /\ table[id].status = "PAID"
        /\ Overlaps(table[id], checkIn, checkOut)}

CheckAvailability(table, roomId, checkIn, checkOut) ==
    ConflictingBookings(table, roomId, checkIn, checkOut) = {}

\* ------------------------------------------------------------ table writes
Insert(table, id, row) ==
    [i \in DOMAIN table \cup {id} |-> IF i = id THEN row ELSE table[i]]
Delete(table, id) == [i \in DOMAIN table \ {id} |-> table[i]]

NewBooking(roomId, checkIn, checkOut) ==
    [roomId |-> roomId, checkIn |-> checkIn, checkOut |-> checkOut,
     status |-> "PENDING", paymentReference |-> NoRef]

\* { ...a, ...b }: the keys of b win
Spread(a, b) ==
    [f \in DOMAIN a \cup DOMAIN b |-> IF f \in DOMAIN b THEN b[f] ELSE a[f]]

\* the unique index on paymentReference: another row already carries the value
ReferenceTaken(table, reference, self) ==
    /\ reference # NoRef
    /\ \E id \in DOMAIN table \ {self} : table[id].paymentReference = reference

\* ---------------------------------------------------------- request bodies
\* req.body is handed to the service as it came: what it carries besides the
\* fields of ICreateBooking / IUpdateBookingByAdmin is spread into the row
\* a field the body does not carry
Absent == -1
AdminDates == Days \cup {Absent}
NoExtra == << >>
GuestExtras ==
    {NoExtra} \cup {[status |-> s] : s \in Statuses}
              \cup {[paymentReference |-> r] : r \in Refs}
AdminExtras == GuestExtras \cup {[roomId |-> r] : r \in rooms}

\* ------------------------------------------------------------------- Init
InitFlow ==
    /\ bookings = << >>
    /\ nextId = 1
    /\ nextRef = 1
    /\ gatewayCalls = {}
    /\ pc = [p \in Procs |-> "idle"]
    /\ req = [p \in Procs |-> NoReq]
    /\ booking = [p \in Procs |-> NoBooking]
    /\ isAvailable = [p \in Procs |-> TRUE]
    /\ result = [p \in Procs |-> None]
    /\ concurrent = FALSE

Init == rooms = {1} /\ InitFlow

\* a request begins
Begin(p, r) ==
    /\ ~InFlight(p)
    /\ req' = [req EXCEPT ![p] = r]
    /\ concurrent' = InFlight(Other(p))

\* it goes on to its next await, with the locals it holds there
Goto(p, label, row, avail) ==
    /\ pc' = [pc EXCEPT ![p] = label]
    /\ booking' = [booking EXCEPT ![p] = row]
    /\ isAvailable' = [isAvailable EXCEPT ![p] = avail]
    /\ result' = [result EXCEPT ![p] = None]

\* it returns or throws: its locals are gone
Finish(p, r) ==
    /\ pc' = [pc EXCEPT ![p] = "done"]
    /\ booking' = [booking EXCEPT ![p] = NoBooking]
    /\ isAvailable' = [isAvailable EXCEPT ![p] = TRUE]
    /\ result' = [result EXCEPT ![p] = r]

\* ----------------------------------------------------- createGuestBooking
\* handleCreateGuestBooking refuses a body without dates; then the availability
\* check inside the $transaction callback (on the global client)
CgbCheck(p, roomId, checkIn, checkOut, extra) ==
    /\ Begin(p, [op |-> "createGuestBooking", roomId |-> roomId,
                 checkIn |-> checkIn, checkOut |-> checkOut, extra |-> extra])
    /\ nextId + Reserved <= MaxBookings
    /\ IF checkIn = Absent \/ checkOut = Absent
          THEN Finish(p, MissingInformationError)
          ELSE IF CheckAvailability(bookings, roomId, checkIn, checkOut)
                  THEN Goto(p, "cgbCreate", NoBooking, TRUE)
                  ELSE Finish(p, ConflictError)
    /\ UNCHANGED <<rooms, bookings, nextId, nextRef, gatewayCalls>>

\* tx.booking.create({ data: { ...bookingDetails, checkIn, checkOut } }) and the
\* commit; the SERIAL is consumed even when the unique index refuses the row
CgbCreate(p) ==
    /\ pc[p] = "cgbCreate"
    /\ LET row == Spread(NewBooking(req[p].roomId, req[p].checkIn, req[p].checkOut),
                         req[p].extra) IN
        IF ReferenceTaken(bookings, row.paymentReference, NoId)
           THEN /\ Finish(p, UniqueConstraintError)
                /\ UNCHANGED bookings
           ELSE /\ bookings' = Insert(bookings, nextId, row)
                /\ Finish(p, Ok)
    /\ nextId' = nextId + 1
    /\ UNCHANGED <<rooms, nextRef, gatewayCalls, req, concurrent>>

\* ------------------------------------------------------ initializePayment
Price(roomId) == IF roomId = 1 THEN 50 ELSE 35

\* mutant: a started day is not charged
NightsFloor(checkIn, checkOut) == (checkOut - checkIn) \div TicksPerDay

\* Math.ceil((checkOut.getTime() - checkIn.getTime()) / (1000 * 3600 * 24))
Nights(checkIn, checkOut) == -((checkIn - checkOut) \div TicksPerDay)

\* Math.round(nights * room.price * 100), prices being whole amounts
AmountInKobo(nights, price) == nights * price * 100

\* data: { ...bookingDetails, status: "PENDING" }
PendingBooking(r) ==
    [Spread(NewBooking(r.roomId, r.checkIn, r.checkOut), r.extra)
        EXCEPT !.status = "PENDING"]

\* mutant: the PENDING row is inserted before the availability check
IpCheckAfterCreate(p, roomId, checkIn, checkOut, extra) ==
    /\ Begin(p, [op |-> "initializePayment", roomId |-> roomId,
                 checkIn |-> checkIn, checkOut |-> checkOut, extra |-> extra])
    /\ nextId + Reserved <= MaxBookings
    /\ bookings' = Insert(bookings, nextId, NewBooking(roomId, checkIn, checkOut))
    /\ nextId' = nextId + 1
    /\ IF CheckAvailability(bookings, roomId, checkIn, checkOut)
          THEN Goto(p, "ipGateway",
                    [id |-> nextId,
                     amount |-> AmountInKobo(Nights(checkIn, checkOut), Price(roomId))],
                    TRUE)
          ELSE Finish(p, ConflictError)
    /\ UNCHANGED <<rooms, nextRef, gatewayCalls>>

\* step 1: checkAvailability against PAID bookings; a conflict throws (and so
\* does the query when a date is missing: new Date(undefined) is invalid)
IpCheck(p, roomId, checkIn, checkOut, extra) ==
    /\ Begin(p, [op |-> "initializePayment", roomId |-> roomId,
                 checkIn |-> checkIn, checkOut |-> checkOut, extra |-> extra])
    /\ nextId + Reserved <= MaxBookings
    /\ IF checkIn = Absent \/ checkOut = Absent
          THEN Finish(p, InvalidDateError)
          ELSE IF CheckAvailability(bookings, roomId, checkIn, checkOut)
                  THEN Goto(p, "ipCreate", NoBooking, TRUE)
                  ELSE Finish(p, ConflictError)
    /\ UNCHANGED <<rooms, bookings, nextId, nextRef, gatewayCalls>>

\* mutant: the gateway is called inside the create, before the row is stored
IpCreatePosts(p) ==
    /\ pc[p] = "ipCreate"
    /\ LET row == PendingBooking(req[p])
           amountInKobo == AmountInKobo(Nights(req[p].checkIn, req[p].checkOut),
                                        Price(req[p].roomId)) IN
        /\ bookings' = Insert(bookings, nextId, row)
        /\ gatewayCalls' = gatewayCalls \cup {[bookingId |-> nextId, amount |-> amountInKobo]}
        /\ Goto(p, "ipGateway", [id |-> nextId, amount |-> amountInKobo], TRUE)
    /\ nextId' = nextId + 1
    /\ UNCHANGED <<rooms, nextRef, req, concurrent>>

\* steps 2-3: the room is read and the amount computed, then
\* prisma.booking.create
IpCreate(p) ==
    /\ pc[p] = "ipCreate"
    /\ LET row == PendingBooking(req[p])
           amountInKobo == AmountInKobo(Nights(req[p].checkIn, req[p].checkOut),
                                        Price(req[p].roomId)) IN
        IF ReferenceTaken(bookings, row.paymentReference, NoId)
           THEN /\ Finish(p, UniqueConstraintError)
                /\ UNCHANGED bookings
           ELSE /\ bookings' = Insert(bookings, nextId, row)
                /\ Goto(p, "ipGateway", [id |-> nextId, amount |-> amountInKobo], TRUE)
    /\ nextId' = nextId + 1
    /\ UNCHANGED <<rooms, nextRef, gatewayCalls, req, concurrent>>

\* mutant: a failed gateway call takes the hold back
IpGatewayRollback(p, answered) ==
    /\ pc[p] = "ipGateway"
    /\ gatewayCalls' = gatewayCalls \cup
                          {[bookingId |-> booking[p].id, amount |-> booking[p].amount]}
    /\ IF answered
          THEN /\ Goto(p, "ipSaveRef", [id |-> booking[p].id, reference |-> nextRef], TRUE)
               /\ nextRef' = nextRef + 1
               /\ UNCHANGED bookings
          ELSE /\ Finish(p, GatewayError)
               /\ bookings' = Delete(bookings, booking[p].id)
               /\ UNCHANGED nextRef
    /\ UNCHANGED <<rooms, nextId, req, concurrent>>

\* step 4: axios.post to the gateway with the amount and the booking's id; it
\* answers with a fresh reference or fails
IpGateway(p, answered) ==
    /\ pc[p] = "ipGateway"
    /\ gatewayCalls' = gatewayCalls \cup
                          {[bookingId |-> booking[p].id, amount |-> booking[p].amount]}
    /\ IF answered
          THEN /\ Goto(p, "ipSaveRef", [id |-> booking[p].id, reference |-> nextRef], TRUE)
               /\ nextRef' = nextRef + 1
          ELSE /\ Finish(p, GatewayError)
               /\ UNCHANGED nextRef
    /\ UNCHANGED <<rooms, bookings, nextId, req, concurrent>>

\* step 5: prisma.booking.update({ where: { id }, data: { paymentReference } })
IpSaveRef(p) ==
    /\ pc[p] = "ipSaveRef"
    /\ IF booking[p].id \notin DOMAIN bookings
          THEN /\ Finish(p, RecordNotFoundError)
               /\ UNCHANGED bookings
          ELSE IF ReferenceTaken(bookings, booking[p].reference, booking[p].id)
                  THEN /\ Finish(p, UniqueConstraintError)
                       /\ UNCHANGED bookings
                  ELSE /\ bookings' = [bookings EXCEPT
                                 ![booking[p].id].paymentReference = booking[p].reference]
                       /\ Finish(p, Ok)
    /\ UNCHANGED <<rooms, nextId, nextRef, gatewayCalls, req, concurrent>>

\* ------------------------------------------ verifyPaymentAndUpdateBooking
\* crypto.createHmac("sha512", key).update(JSON.stringify(body)).digest("hex")
Hmac(key, body) == <<key, body.event, body.reference>>

Bodies == [event : Events, reference : Refs]
\* the header a sender may supply: the right one, or one made with another key
Signatures(body) == {Hmac(SecretKey, body), Hmac(ForgedKey, body)}

\* mutant: the signature is computed but never compared
VpVerifyUnchecked(p, signature, body) ==
    /\ Begin(p, [op |-> "verifyPayment", signature |-> signature, body |-> body])
    /\ IF body.event = "charge.success"
          THEN Goto(p, "vpLookup", NoBooking, TRUE)
          ELSE Finish(p, Ok)
    /\ UNCHANGED <<rooms, bookings, nextId, nextRef, gatewayCalls>>

\* mutant: every signed event is reconciled, whatever its type
VpVerifyAnyEvent(p, signature, body) ==
    /\ Begin(p, [op |-> "verifyPayment", signature |-> signature, body |-> body])
    /\ IF Hmac(SecretKey, body) # signature
          THEN Finish(p, InvalidSignatureError)
          ELSE Goto(p, "vpLookup", NoBooking, TRUE)
    /\ UNCHANGED <<rooms, bookings, nextId, nextRef, gatewayCalls>>

\* the synchronous part: the signature comparison, then the dispatch on the event
VpVerify(p, signature, body) ==
    /\ Begin(p, [op |-> "verifyPayment", signature |-> signature, body |-> body])
    /\ IF Hmac(SecretKey, body) # signature
          THEN Finish(p, InvalidSignatureError)
          ELSE IF body.event = "charge.success"
                  THEN Goto(p, "vpLookup", NoBooking, TRUE)
                  ELSE Finish(p, Ok)
    /\ UNCHANGED <<rooms, bookings, nextId, nextRef, gatewayCalls>>

\* prisma.booking.findUnique({ where: { paymentReference: reference } })
FindByReference(table, reference) ==
    {id \in DOMAIN table : table[id].paymentReference = reference}

\* mutant: an unknown reference is ignored without an error
VpLookupLenient(p) ==
    /\ pc[p] = "vpLookup"
    /\ LET found == FindByReference(bookings, req[p].body.reference) IN
        IF found = {}
           THEN Finish(p, Ok)
           ELSE LET id == CHOOSE i \in found : TRUE IN
                Goto(p, "vpCheck",
                     [id |-> id, roomId |-> bookings[id].roomId,
                      checkIn |-> bookings[id].checkIn,
                      checkOut |-> bookings[id].checkOut,
                      status |-> bookings[id].status], TRUE)
    /\ UNCHANGED <<rooms, bookings, nextId, nextRef, gatewayCalls, req, concurrent>>

VpLookup(p) ==
    /\ pc[p] = "vpLookup"
    /\ LET found == FindByReference(bookings, req[p].body.reference) IN
        IF found = {}
           THEN Finish(p, NotFoundError(req[p].body.reference))
           ELSE LET id == CHOOSE i \in found : TRUE IN
                Goto(p, "vpCheck",
                     [id |-> id, roomId |-> bookings[id].roomId,
                      checkIn |-> bookings[id].checkIn,
                      checkOut |-> bookings[id].checkOut,
                      status |-> bookings[id].status], TRUE)
    /\ UNCHANGED <<rooms, bookings, nextId, nextRef, gatewayCalls, req, concurrent>>

\* the re-check, with the room and dates of the row that was read
VpCheck(p) ==
    /\ pc[p] = "vpCheck"
    /\ Goto(p, "vpWrite", [id |-> booking[p].id, status |-> booking[p].status],
            CheckAvailability(bookings, booking[p].roomId,
                              booking[p].checkIn, booking[p].checkOut))
    /\ UNCHANGED <<rooms, bookings, nextId, nextRef, gatewayCalls, req, concurrent>>

\* mutant: the lost race is logged and marked FAILED, but nothing is thrown
VpWriteSwallow(p) ==
    /\ pc[p] = "vpWrite"
    /\ IF booking[p].id \in DOMAIN bookings
          THEN /\ bookings' = [bookings EXCEPT ![booking[p].id].status =
                                  IF isAvailable[p] THEN "PAID" ELSE "FAILED"]
               /\ Finish(p, Ok)
          ELSE /\ Finish(p, RecordNotFoundError)
               /\ UNCHANGED bookings
    /\ UNCHANGED <<rooms, nextId, nextRef, gatewayCalls, req, concurrent>>

\* mutant: a booking that lost the race also loses its reference
VpWriteClearsReference(p) ==
    /\ pc[p] = "vpWrite"
    /\ IF booking[p].id \in DOMAIN bookings
          THEN IF isAvailable[p]
                  THEN /\ bookings' = [bookings EXCEPT ![booking[p].id].status = "PAID"]
                       /\ Finish(p, Ok)
                  ELSE /\ bookings' = [bookings EXCEPT
                                          ![booking[p].id].status = "FAILED",
                                          ![booking[p].id].paymentReference = NoRef]
                       /\ Finish(p, RaceLostError)
          ELSE /\ Finish(p, RecordNotFoundError)
               /\ UNCHANGED bookings
    /\ UNCHANGED <<rooms, nextId, nextRef, gatewayCalls, req, concurrent>>

\* the status write: FAILED and a throw when the re-check failed, else PAID
VpWrite(p) ==
    /\ pc[p] = "vpWrite"
    /\ IF booking[p].id \in DOMAIN bookings
          THEN IF isAvailable[p]
                  THEN /\ bookings' = [bookings EXCEPT ![booking[p].id].status = "PAID"]
                       /\ Finish(p, Ok)
                  ELSE /\ bookings' = [bookings EXCEPT ![booking[p].id].status = "FAILED"]
                       /\ Finish(p, RaceLostError)
          ELSE /\ Finish(p, RecordNotFoundError)
               /\ UNCHANGED bookings
    /\ UNCHANGED <<rooms, nextId, nextRef, gatewayCalls, req, concurrent>>

\* ---------------------------------------------------- handlePaystackWebhook
WebhookStatus(r) == IF r = Ok THEN 200 ELSE 400

\* --------------------------------------------------- handleInitializePayment
InitializeStatus(r) ==
    IF r = Ok THEN 201 ELSE IF StartsWithConflict(r) THEN 409 ELSE 500

\* ---------------------------------------------------- getBookingByPublicId
\* the columns of Booking that the flow above never reads: the public id (a
\* cuid, unrelated to the SERIAL) and what the guest entered
PublicIds == <<"ck9f2a", "ck3x7q", "ck8m1d", "ck5t0w">>
Cuid(id) == PublicIds[id]
GuestColumns(id) ==
    [id |-> id, bookingId |-> Cuid(id), guestName |-> "Ada Obi",
     guestEmail |-> "ada@example.com", guestPhone |-> "+2348000000000",
     createdAt |-> id]
RoomColumns(roomId) ==
    [id |-> roomId, name |-> <<"Room", roomId>>, price |-> Price(roomId),
     images |-> << >>]

\* the row as stored, with its room
FullRow(table, id) ==
    Spread(Spread(table[id], GuestColumns(id)),
           [room |-> RoomColumns(table[id].roomId)])

Select(row, fields) == [f \in fields |-> row[f]]

\* mutant: the status is selected too
PublicSelectWithStatus(row) ==
    Spread(Select(row, {"bookingId", "checkIn", "checkOut", "guestName", "createdAt",
                        "status"}),
           [room |-> Select(row.room, {"name", "price", "images"})])

\* select: { bookingId, checkIn, checkOut, guestName, createdAt,
\*           room: { select: { name, price, images } } }
PublicSelect(row) ==
    Spread(Select(row, {"bookingId", "checkIn", "checkOut", "guestName", "createdAt"}),
           [room |-> Select(row.room, {"name", "price", "images"})])

Null == <<"null">>
Found(view) == <<"OK", view>>

\* prisma.booking.findUnique({ where: { bookingId }, select })
GetBookingByPublicId(p, bookingId) ==
    /\ Begin(p, [op |-> "getBookingByPublicId", bookingId |-> bookingId])
    /\ LET found == {id \in DOMAIN bookings : Cuid(id) = bookingId} IN
        IF found = {}
           THEN Finish(p, Null)
           ELSE Finish(p, Found(PublicSelect(FullRow(bookings,
                                                     CHOOSE id \in found : TRUE))))
    /\ UNCHANGED <<rooms, bookings, nextId, nextRef, gatewayCalls>>

\* ------------------------------------------------------ getRoomAvailability
\* select: { checkIn: true, checkOut: true }
RangeSelect(row) == [checkIn |-> row.checkIn, checkOut |-> row.checkOut]

\* where: { roomId: id, checkOut: { gte: new Date() } }
NotEnded(table, roomId, now) ==
    {id \in DOMAIN table : table[id].roomId = roomId /\ table[id].checkOut >= now}

\* prisma.booking.findMany({ where, select }): the selected rows in no given
\* order, as the number of rows returned with each range
GetRoomAvailability(p, roomId, now) ==
    /\ Begin(p, [op |-> "getRoomAvailability", roomId |-> roomId, now |-> now])
    /\ LET found == NotEnded(bookings, roomId, now)
           ranges == {RangeSelect(bookings[id]) : id \in found} IN
        Finish(p, Found([r \in ranges |->
                            Cardinality({id \in found : RangeSelect(bookings[id]) = r})]))
    /\ UNCHANGED <<rooms, bookings, nextId, nextRef, gatewayCalls>>

\* handleCreateGuestBooking: responsePayload
ResponsePayload(newBooking) == [bookingId |-> newBooking.bookingId]

\* ------------------------------------------------------------- admin calls
\* IUpdateBookingByAdmin: each date is optional; what is present is written
BodyDates(checkIn, checkOut) ==
    [f \in {g \in {"checkIn", "checkOut"} :
                (IF g = "checkIn" THEN checkIn ELSE checkOut) # Absent}
        |-> IF f = "checkIn" THEN checkIn ELSE checkOut]

\* data: { ...bookingData, checkIn: new Date(..), checkOut: new Date(..) }; the
\* update is refused as a whole when the unique index is violated
UpdateBookingByAdmin(id, checkIn, checkOut, extra) ==
    /\ id \in DOMAIN bookings
    /\ LET row == Spread(Spread(bookings[id], extra), BodyDates(checkIn, checkOut)) IN
        IF ReferenceTaken(bookings, row.paymentReference, id)
           THEN UNCHANGED bookings
           ELSE bookings' = [bookings EXCEPT ![id] = row]
    /\ UNCHANGED <<rooms, nextId, nextRef, gatewayCalls, pc, req, booking, isAvailable,
                   result, concurrent>>

\* mutant: the delete takes the other bookings of the room with it
DeleteBookingByAdminCascade(id) ==
    /\ id \in DOMAIN bookings
    /\ bookings' = [i \in {j \in DOMAIN bookings :
                              bookings[j].roomId # bookings[id].roomId} |-> bookings[i]]
    /\ UNCHANGED <<rooms, nextId, nextRef, gatewayCalls, pc, req, booking, isAvailable,
                   result, concurrent>>

DeleteBookingByAdmin(id) ==
    /\ id \in DOMAIN bookings
    /\ bookings' = Delete(bookings, id)
    /\ UNCHANGED <<rooms, nextId, nextRef, gatewayCalls, pc, req, booking, isAvailable,
                   result, concurrent>>

\* ------------------------------------------------------------------- Next
\* an admin update whose dates, once written, still satisfy checkIn < checkOut
\* (Admin sends both dates; NextDates also sends one of them, or none)
KeepsRange(id, checkIn, checkOut) ==
    /\ id \in DOMAIN bookings
    /\ (IF checkIn # Absent THEN checkIn ELSE bookings[id].checkIn)
         < (IF checkOut # Absent THEN checkOut ELSE bookings[id].checkOut)

\* the steps of the request served in slot p, its body being of the declared
\* type with checkIn < checkOut
Serve(p) ==
    \/ \E roomId \in rooms, d \in DateRanges : CgbCheck(p, roomId, d[1], d[2], NoExtra)
    \/ CgbCreate(p)
    \/ \E roomId \in rooms, d \in DateRanges : IpCheck(p, roomId, d[1], d[2], NoExtra)
    \/ IpCreate(p)
    \/ \E answered \in BOOLEAN : IpGateway(p, answered)
    \/ IpSaveRef(p)
    \/ \E body \in Bodies : \E signature \in Signatures(body) : VpVerify(p, signature, body)
    \/ VpLookup(p)
    \/ VpCheck(p)
    \/ VpWrite(p)

Admin ==
    \/ \E id \in BookingIds, checkIn \in Days, checkOut \in Days :
          /\ KeepsRange(id, checkIn, checkOut)
          /\ UpdateBookingByAdmin(id, checkIn, checkOut, NoExtra)
    \/ \E id \in BookingIds : DeleteBookingByAdmin(id)

Next == (\E p \in Procs : Serve(p)) \/ Admin

\* two requests in flight at once, one room
Spec == Init /\ [][Next]_vars

\* two rooms, requests served one at a time (admin calls still come in between
\* their steps)
NextSolo == Serve("r1") \/ Admin
InitRooms == rooms = {1, 2} /\ InitFlow
SpecRooms == InitRooms /\ [][NextSolo]_vars

\* the steps that follow the first one of a call; they take no input but the
\* gateway's answer
Continue(p) ==
    \/ CgbCreate(p)
    \/ IpCreate(p)
    \/ \E answered \in BOOLEAN : IpGateway(p, answered)
    \/ IpSaveRef(p)
    \/ VpLookup(p)
    \/ VpCheck(p)
    \/ VpWrite(p)

Webhook(p) ==
    \E body \in Bodies : \E signature \in Signatures(body) : VpVerify(p, signature, body)

\* bodies that carry a field outside the declared type (the handlers hand
\* req.body to the service as it came), one request at a time, one room
NextBodies ==
    \/ \E roomId \in rooms, d \in DateRanges, extra \in GuestExtras :
          CgbCheck("r1", roomId, d[1], d[2], extra)
    \/ \E roomId \in rooms, d \in DateRanges, extra \in GuestExtras :
          IpCheck("r1", roomId, d[1], d[2], extra)
    \/ Webhook("r1")
    \/ Continue("r1")
    \/ \E id \in BookingIds, extra \in AdminExtras :
          UpdateBookingByAdmin(id, Absent, Absent, extra)
    \/ \E id \in BookingIds : DeleteBookingByAdmin(id)

SpecBodies == Init /\ [][NextBodies]_vars

\* bodies of the declared type whose dates come in any order or are missing
NextDates ==
    \/ \E roomId \in rooms, checkIn \in AdminDates, checkOut \in AdminDates :
          CgbCheck("r1", roomId, checkIn, checkOut, NoExtra)
    \/ \E roomId \in rooms, checkIn \in AdminDates, checkOut \in AdminDates :
          IpCheck("r1", roomId, checkIn, checkOut, NoExtra)
    \/ Webhook("r1")
    \/ Continue("r1")
    \/ \E id \in BookingIds, checkIn \in AdminDates, checkOut \in AdminDates :
          UpdateBookingByAdmin(id, checkIn, checkOut, NoExtra)
    \/ \E id \in BookingIds : DeleteBookingByAdmin(id)

SpecDates == Init /\ [][NextDates]_vars

\* the calls of SpecRooms in one room, and guests looking bookings up by their
\* public id
NextViews ==
    \/ Serve("r1")
    \/ Admin
    \/ \E id \in BookingIds : GetBookingByPublicId("r1", Cuid(id))

SpecViews == Init /\ [][NextViews]_vars

\* the flow of one room with the calendar read at any instant
NextCalendar ==
    \/ Serve("r1")
    \/ Admin
    \/ \E roomId \in rooms, now \in Days : GetRoomAvailability("r1", roomId, now)

SpecCalendar == Init /\ [][NextCalendar]_vars

\* payment initialisation alone, for stays of half a day to three days in
\* rooms of two prices
Instants == {0, 1, 5, 6}
NextAmount ==
    \/ \E roomId \in rooms, checkIn \in Instants, checkOut \in Instants :
          checkIn < checkOut /\ IpCheck("r1", roomId, checkIn, checkOut, NoExtra)
    \/ IpCreate("r1")
    \/ \E answered \in BOOLEAN : IpGateway("r1", answered)
    \/ IpSaveRef("r1")

SpecAmount == InitRooms /\ [][NextAmount]_vars

\* ================================================================= claims
RangesOverlap(a, b) == a.checkIn < b.checkOut /\ b.checkIn < a.checkOut
Paid(id) == id \in DOMAIN bookings /\ bookings[id].status = "PAID"
IsCall(p, op) == req[p].op = op
ValidSuccessEvent(p) ==
    /\ IsCall(p, "verifyPayment")
    /\ req[p].signature = Hmac(SecretKey, req[p].body)
    /\ req[p].body.event = "charge.success"

\* C1: for every room, no two PAID bookings of the room have overlapping
\* half-open intervals [checkIn, checkOut), in every reachable state.
NonOverlapInvariant ==
    \A a \in DOMAIN bookings : \A b \in DOMAIN bookings :
        (/\ a # b
         /\ bookings[a].roomId = bookings[b].roomId
         /\ bookings[a].status = "PAID"
         /\ bookings[b].status = "PAID")
        => ~RangesOverlap(bookings[a], bookings[b])

\* C2: two createGuestBooking calls for the same room that ran concurrently and
\* have both ended: with overlapping ranges exactly one succeeded and the other
\* got Conflict; with disjoint ranges (and no PAID booking in the room) both
\* succeeded.
CreateGuestBookingExclusive ==
    \A p \in Procs : \A q \in Procs :
        (/\ p # q
         /\ concurrent
         /\ pc[p] = "done" /\ pc[q] = "done"
         /\ IsCall(p, "createGuestBooking") /\ IsCall(q, "createGuestBooking")
         /\ req[p].roomId = req[q].roomId)
        => IF RangesOverlap(req[p], req[q])
              THEN {result[p], result[q]} = {Ok, ConflictError}
              ELSE (\A id \in DOMAIN bookings :
                        bookings[id].roomId = req[p].roomId => ~Paid(id))
                   => (result[p] = Ok /\ result[q] = Ok)

\* C3: valid charge.success events for two distinct bookings of one room with
\* overlapping ranges, processed concurrently and both ended: exactly one of
\* the two bookings is PAID and the other is FAILED.
ReconciliationAtomic ==
    \A p \in Procs : \A q \in Procs :
        (/\ p # q
         /\ concurrent
         /\ pc[p] = "done" /\ pc[q] = "done"
         /\ ValidSuccessEvent(p) /\ ValidSuccessEvent(q)
         /\ req[p].body.reference # req[q].body.reference)
        => \A a \in FindByReference(bookings, req[p].body.reference) :
           \A b \in FindByReference(bookings, req[q].body.reference) :
              (/\ bookings[a].roomId = bookings[b].roomId
               /\ RangesOverlap(bookings[a], bookings[b]))
              => {bookings[a].status, bookings[b].status} = {"PAID", "FAILED"}

\* C4: a correctly signed charge.success event for a reference whose booking
\* was read as PAID leaves that booking PAID, raises no error and adds no row.
IdempotentWebhook ==
    [][\A p \in Procs :
          (/\ pc[p] = "vpWrite"
           /\ pc'[p] = "done"
           /\ booking[p].status = "PAID"
           /\ booking[p].id \in DOMAIN bookings)
          => (/\ bookings'[booking[p].id].status = "PAID"
              /\ result'[p] = Ok
              /\ DOMAIN bookings' = DOMAIN bookings)]_vars

\* a PAID booking of the room, other than `self`, that shares a night with the range
PaidOverlap(roomId, checkIn, checkOut, self) ==
    \E id \in DOMAIN bookings :
        /\ id # self
        /\ bookings[id].roomId = roomId
        /\ bookings[id].status = "PAID"
        /\ bookings[id].checkIn < checkOut
        /\ bookings[id].checkOut > checkIn

\* the step in which request p begins a call of `op`
Begins(p, op) ==
    /\ ~InFlight(p)
    /\ <<pc[p], req[p], result[p]>>' # <<pc[p], req[p], result[p]>>
    /\ req'[p].op = op

OthersUnchanged(id) ==
    /\ DOMAIN bookings' = DOMAIN bookings
    /\ \A i \in DOMAIN bookings : i # id => bookings'[i] = bookings[i]

\* C5: when the re-check of a charge.success event for booking A finds another
\* PAID booking B of A's room overlapping A's range, the event marks A FAILED,
\* leaves B (and every other row, and A's other fields) as it was, and ends in
\* a thrown error, which the webhook handler answers with 400.
RaceLostPath ==
    [][\A p \in Procs :
          /\ (/\ pc[p] = "vpCheck" /\ pc'[p] = "vpWrite"
              /\ PaidOverlap(booking[p].roomId, booking[p].checkIn,
                             booking[p].checkOut, booking[p].id))
             => ~isAvailable'[p]
          /\ (/\ pc[p] = "vpWrite" /\ pc'[p] = "done"
              /\ ~isAvailable[p]
              /\ booking[p].id \in DOMAIN bookings)
             => (/\ bookings'[booking[p].id] =
                       [bookings[booking[p].id] EXCEPT !.status = "FAILED"]
                 /\ OthersUnchanged(booking[p].id)
                 /\ result'[p] = RaceLostError
                 /\ WebhookStatus(result'[p]) = 400)]_vars

RaceLostWitness ==
    \E p \in Procs : \E a \in DOMAIN bookings :
        /\ pc[p] = "done" /\ ValidSuccessEvent(p)
        /\ result[p] = RaceLostError
        /\ bookings[a].paymentReference = req[p].body.reference
        /\ bookings[a].status = "FAILED"
        /\ PaidOverlap(bookings[a].roomId, bookings[a].checkIn, bookings[a].checkOut, a)

\* C6: a call whose signature differs from the HMAC of its payload under the
\* secret ends at once with the invalid-signature error and changes no booking,
\* whatever the event and the reference; a call that reaches the lookup, the
\* re-check or the write has passed the comparison.
SignatureEnforcement ==
    [][\A p \in Procs :
          /\ (/\ Begins(p, "verifyPayment")
              /\ req'[p].signature # Hmac(SecretKey, req'[p].body))
             => (/\ pc'[p] = "done"
                 /\ result'[p] = InvalidSignatureError
                 /\ bookings' = bookings)
          /\ pc'[p] \in {"vpLookup", "vpCheck", "vpWrite"}
             => req'[p].signature = Hmac(SecretKey, req'[p].body)]_vars

SignatureWitness ==
    \E p \in Procs : \E a \in DOMAIN bookings :
        /\ pc[p] = "done" /\ IsCall(p, "verifyPayment")
        /\ req[p].signature # Hmac(SecretKey, req[p].body)
        /\ req[p].body.event = "charge.success"
        /\ bookings[a].paymentReference = req[p].body.reference
        /\ bookings[a].status = "PENDING"
        /\ result[p] = InvalidSignatureError

\* C7: every availability check (of createGuestBooking, of initializePayment,
\* of the reconciliation) answers true exactly when no PAID booking of the room
\* has checkIn < the candidate's checkOut and checkOut > the candidate's checkIn.
CheckAvailabilityContract ==
    [][\A p \in Procs :
          /\ (Begins(p, "createGuestBooking") \/ Begins(p, "initializePayment"))
             => ((pc'[p] \in {"cgbCreate", "ipCreate"})
                   <=> ~PaidOverlap(req'[p].roomId, req'[p].checkIn, req'[p].checkOut, NoId))
          /\ (pc[p] = "vpCheck" /\ pc'[p] = "vpWrite")
             => (isAvailable'[p]
                   <=> ~PaidOverlap(booking[p].roomId, booking[p].checkIn,
                                    booking[p].checkOut, NoId))]_vars

\* a request passed its check for a range that starts where a PAID booking of
\* the room ends
AbutWitness ==
    \E p \in Procs : \E a \in DOMAIN bookings :
        /\ pc[p] = "ipCreate"
        /\ Paid(a) /\ bookings[a].roomId = req[p].roomId
        /\ bookings[a].checkOut = req[p].checkIn

\* C8: initializePayment for a range that no PAID booking of the room overlaps
\* goes on to create its booking, whatever other bookings overlap the range,
\* and the row it creates is PENDING with the requested room and dates.
PendingHoldsDoNotBlock ==
    [][\A p \in Procs :
          /\ (/\ Begins(p, "initializePayment")
              /\ ~PaidOverlap(req'[p].roomId, req'[p].checkIn, req'[p].checkOut, NoId))
             => pc'[p] = "ipCreate"
          /\ (pc[p] = "ipCreate" /\ pc'[p] # "ipCreate")
             => (/\ nextId \notin DOMAIN bookings
                 /\ DOMAIN bookings' = DOMAIN bookings \cup {nextId}
                 /\ bookings'[nextId] =
                       [roomId |-> req[p].roomId, checkIn |-> req[p].checkIn,
                        checkOut |-> req[p].checkOut, status |-> "PENDING",
                        paymentReference |-> NoRef]
                 /\ \A i \in DOMAIN bookings : bookings'[i] = bookings[i])]_vars

PendingHoldWitness ==
    \E p \in Procs : \E a \in DOMAIN bookings :
        /\ pc[p] = "ipGateway"
        /\ a # booking[p].id
        /\ bookings[a].status \in {"PENDING", "FAILED"}
        /\ bookings[a].roomId = req[p].roomId
        /\ RangesOverlap(bookings[a], req[p])
        /\ bookings[booking[p].id].status = "PENDING"

\* C9: createGuestBooking or initializePayment for a range that a PAID booking
\* of the room overlaps ends at once with an error whose message starts with
\* "Conflict:", no booking is created or modified and nothing is posted to the
\* payment gateway.
ConflictNoSideEffects ==
    [][\A p \in Procs :
          (/\ (Begins(p, "createGuestBooking") \/ Begins(p, "initializePayment"))
           /\ PaidOverlap(req'[p].roomId, req'[p].checkIn, req'[p].checkOut, NoId))
          => (/\ pc'[p] = "done"
              /\ StartsWithConflict(result'[p])
              /\ bookings' = bookings
              /\ nextId' = nextId
              /\ gatewayCalls' = gatewayCalls)]_vars

ConflictWitness ==
    \E p \in Procs :
        /\ pc[p] = "done" /\ IsCall(p, "initializePayment")
        /\ StartsWithConflict(result[p])
        /\ PaidOverlap(req[p].roomId, req[p].checkIn, req[p].checkOut, NoId)

\* C10: a correctly signed charge.success event whose reference no booking
\* carries ends in the not-found error (answered 400) and changes no booking,
\* no counter and no other request, so later events are served as before.
UnknownReference ==
    [][\A p \in Procs :
          (/\ pc[p] = "vpLookup" /\ pc'[p] # "vpLookup"
           /\ \A id \in DOMAIN bookings :
                 bookings[id].paymentReference # req[p].body.reference)
          => (/\ pc'[p] = "done"
              /\ result'[p] = NotFoundError(req[p].body.reference)
              /\ WebhookStatus(result'[p]) = 400
              /\ UNCHANGED <<bookings, nextId, nextRef, gatewayCalls>>
              /\ \A q \in Procs \ {p} : UNCHANGED <<pc[q], req[q], booking[q], result[q]>>)]_vars

UnknownReferenceWitness ==
    \E p \in Procs : \E a \in DOMAIN bookings :
        /\ pc[p] = "done" /\ ValidSuccessEvent(p)
        /\ result[p] = NotFoundError(req[p].body.reference)
        /\ bookings[a].paymentReference \notin {NoRef, req[p].body.reference}

\* the request of a stored row: the room and the dates
SameStay(row, r) ==
    /\ row.roomId = r.roomId
    /\ row.checkIn = r.checkIn
    /\ row.checkOut = r.checkOut

Posted(id) == \E c \in gatewayCalls : c.bookingId = id

\* C11: when the gateway call of initializePayment fails, the call ends in an
\* error (answered 500), no booking is changed or removed, and the booking the
\* call created, while it exists, is PENDING with no paymentReference.
GatewayFailureKeepsHold ==
    [][\A p \in Procs :
          (pc[p] = "ipGateway" /\ pc'[p] = "done")
          => (/\ result'[p] = GatewayError
              /\ InitializeStatus(result'[p]) = 500
              /\ bookings' = bookings
              /\ booking[p].id \in DOMAIN bookings
                 => (/\ bookings'[booking[p].id].status = "PENDING"
                     /\ bookings'[booking[p].id].paymentReference = NoRef))]_vars

GatewayFailureWitness ==
    \E p \in Procs : \E a \in DOMAIN bookings : \E b \in DOMAIN bookings :
        /\ pc[p] = "done" /\ IsCall(p, "initializePayment")
        /\ result[p] = GatewayError
        /\ a = nextId - 1 /\ Posted(a) /\ SameStay(bookings[a], req[p])
        /\ bookings[a].status = "PENDING"
        /\ bookings[a].paymentReference = NoRef
        /\ b # a

\* the holds of request r that were posted to the gateway and got no reference
FailedHolds(r) ==
    {a \in DOMAIN bookings :
        /\ Posted(a)
        /\ SameStay(bookings[a], r)
        /\ bookings[a].status = "PENDING"
        /\ bookings[a].paymentReference = NoRef}

\* C12: an initializePayment call repeated with the same request while the
\* PENDING booking of a failed attempt survives goes on with that booking: it
\* stores no further booking.
IdempotentRetry ==
    [][\A p \in Procs :
          (/\ pc[p] = "ipCreate" /\ pc'[p] # "ipCreate"
           /\ FailedHolds(req[p]) # {})
          => DOMAIN bookings' = DOMAIN bookings]_vars

\* C13: the amount posted to the gateway is n * room.price * 100, n being the
\* least whole number of days that covers checkOut - checkIn.
AmountComputation ==
    [][\A p \in Procs :
          (pc[p] = "ipGateway" /\ pc'[p] # "ipGateway")
          => \E n \in 0..(req[p].checkOut - req[p].checkIn) :
                /\ n * TicksPerDay >= req[p].checkOut - req[p].checkIn
                /\ (n - 1) * TicksPerDay < req[p].checkOut - req[p].checkIn
                /\ gatewayCalls' = gatewayCalls \cup
                      {[bookingId |-> booking[p].id,
                        amount |-> n * Price(req[p].roomId) * 100]}]_vars

\* two and a half days in the room that costs 50 are charged as three nights
AmountWitness ==
    \E p \in Procs : \E c \in gatewayCalls :
        /\ pc[p] = "ipSaveRef" /\ c.bookingId = booking[p].id
        /\ Price(req[p].roomId) = 50
        /\ req[p].checkOut - req[p].checkIn = 2 * TicksPerDay + 1
        /\ c.amount = 15000

\* a step that sets a status to PAID or FAILED finds it PENDING
SettledFromPending ==
    \A id \in DOMAIN bookings \cap DOMAIN bookings' :
        (/\ bookings'[id].status # bookings[id].status
         /\ bookings'[id].status \in {"PAID", "FAILED"})
        => bookings[id].status = "PENDING"

\* a FAILED or CANCELLED booking keeps its status
FailedIsFinal ==
    \A id \in DOMAIN bookings \cap DOMAIN bookings' :
        bookings[id].status \in {"FAILED", "CANCELLED"}
        => bookings'[id].status = bookings[id].status

\* C14: a booking becomes PAID or FAILED only from PENDING, and a booking that
\* is FAILED or CANCELLED is not moved by any later event.
StatusLifecycle == [][SettledFromPending /\ FailedIsFinal]_vars

Kept == DOMAIN bookings \cap DOMAIN bookings'

\* C15: no step changes the checkIn or checkOut of a booking that is PAID.
PaidDatesImmutable ==
    [][\A id \in Kept :
          bookings[id].status = "PAID"
          => (/\ bookings'[id].checkIn = bookings[id].checkIn
              /\ bookings'[id].checkOut = bookings[id].checkOut)]_vars

\* C16: the paymentReference of a stored booking is written only by the last
\* step of the initializePayment call that created it, its status only by the
\* write of a reconciliation that looked it up, and its roomId by nothing; an
\* admin update in particular leaves the three as they were.
WriteOwnership ==
    [][\A id \in Kept :
          /\ bookings'[id].paymentReference # bookings[id].paymentReference
             => \E p \in Procs : pc[p] = "ipSaveRef" /\ booking[p].id = id
          /\ bookings'[id].status # bookings[id].status
             => \E p \in Procs : pc[p] = "vpWrite" /\ booking[p].id = id
          /\ bookings'[id].roomId = bookings[id].roomId]_vars

\* no two stored bookings carry the same reference
UniqueReferences ==
    \A a \in DOMAIN bookings : \A b \in DOMAIN bookings :
        (a # b /\ bookings[a].paymentReference # NoRef)
        => bookings[a].paymentReference # bookings[b].paymentReference

\* a stored reference is one the gateway issued, and the booking was posted
NullUntilAnswered ==
    \A id \in DOMAIN bookings :
        bookings[id].paymentReference # NoRef
        => (Posted(id) /\ bookings[id].paymentReference < nextRef)

\* a step changes the status of one booking at most
OneStatusChange ==
    \A a \in Kept : \A b \in Kept :
        (/\ bookings'[a].status # bookings[a].status
         /\ bookings'[b].status # bookings[b].status) => a = b

\* C17: references are unique among the stored bookings, a booking has no
\* reference before the gateway answered its initiation, and an event changes
\* the status of at most one booking.
ReferenceCorrelation ==
    [][UniqueReferences' /\ NullUntilAnswered' /\ OneStatusChange]_vars

\* the request has no date range: a date is missing or checkIn >= checkOut
NoRange(r) ==
    r.checkIn = Absent \/ r.checkOut = Absent \/ r.checkIn >= r.checkOut

\* the call was refused for its input (the 400 of handleCreateGuestBooking, or
\* the refusal of the invalid Date, which handleInitializePayment answers 500)
RefusedInput(r) == r \in {MissingInformationError, InvalidDateError}

\* C18: every stored booking has checkIn < checkOut, and a createGuestBooking
\* or initializePayment request without a date range is refused at once,
\* before the availability check, and writes nothing.
DateRangeValidity ==
    [][/\ \A id \in DOMAIN bookings' : bookings'[id].checkIn < bookings'[id].checkOut
       /\ \A p \in Procs :
             (/\ Begins(p, "createGuestBooking") \/ Begins(p, "initializePayment")
              /\ NoRange(req'[p]))
             => (/\ pc'[p] = "done"
                 /\ RefusedInput(result'[p])
                 /\ bookings' = bookings)]_vars

HiddenColumns == {"id", "paymentReference", "status", "guestEmail", "guestPhone"}

\* C20: what getBookingByPublicId returns for a stored booking is made of its
\* bookingId, dates, guest name, creation time and the room's name, price and
\* images, and of no other column; the payload answered to a successful
\* createGuestBooking has the bookingId and nothing else.
PublicIdOpacity ==
    [][\A p \in Procs :
          /\ (Begins(p, "getBookingByPublicId") /\ result'[p] # Null)
             => \E id \in DOMAIN bookings :
                   /\ Cuid(id) = req'[p].bookingId
                   /\ DOMAIN result'[p][2] \cap HiddenColumns = {}
                   /\ DOMAIN result'[p][2].room \cap HiddenColumns = {}
                   /\ result'[p][2] =
                         [bookingId |-> Cuid(id),
                          checkIn |-> bookings[id].checkIn,
                          checkOut |-> bookings[id].checkOut,
                          guestName |-> GuestColumns(id).guestName,
                          createdAt |-> GuestColumns(id).createdAt,
                          room |-> [name |-> RoomColumns(bookings[id].roomId).name,
                                    price |-> Price(bookings[id].roomId),
                                    images |-> << >>]]
          /\ (pc[p] = "cgbCreate" /\ pc'[p] = "done" /\ result'[p] = Ok)
             => ResponsePayload(FullRow(bookings', nextId)) = [bookingId |-> Cuid(nextId)]]_vars

\* a guest looked up a booking that is PAID and has a reference
PublicViewWitness ==
    \E p \in Procs : \E id \in DOMAIN bookings :
        /\ pc[p] = "done" /\ IsCall(p, "getBookingByPublicId")
        /\ req[p].bookingId = Cuid(id)
        /\ result[p] # Null
        /\ bookings[id].status = "PAID"
        /\ bookings[id].paymentReference # NoRef

\* the bookings of one room
RoomTable(table, roomId) ==
    [id \in {i \in DOMAIN table : table[i].roomId = roomId} |-> table[id]]

\* the rooms whose bookings a step creates, changes or removes
RoomsTouched ==
    {bookings[id].roomId : id \in {i \in DOMAIN bookings :
                                      i \notin DOMAIN bookings' \/ bookings'[i] # bookings[i]}}
    \cup {bookings'[id].roomId : id \in DOMAIN bookings' \ DOMAIN bookings}

\* what checkAvailability answers for a room is what the bookings of that room
\* alone give
AnswerOfRoomAlone ==
    \A roomId \in rooms : \A d \in DateRanges :
        CheckAvailability(bookings, roomId, d[1], d[2])
           <=> CheckAvailability(RoomTable(bookings, roomId), roomId, d[1], d[2])

\* C21: in every state the answer of checkAvailability for a room is the one
\* its own bookings give, and a step creates, changes or removes bookings of
\* one room at most, so that a step on another room changes neither a booking
\* of R nor an answer for R; what createGuestBooking, initializePayment and the
\* reconciliation decide for a booking of R is what the bookings of R give.
CrossRoomIndependence ==
    /\ []AnswerOfRoomAlone
    /\ [][/\ (bookings' = bookings \/ Cardinality(RoomsTouched) <= 1)
          /\ \A p \in Procs :
                IF InFlight(p)
                   THEN (pc[p] = "vpCheck" /\ pc'[p] = "vpWrite")
                        => (isAvailable'[p]
                              <=> CheckAvailability(RoomTable(bookings, booking[p].roomId),
                                                    booking[p].roomId, booking[p].checkIn,
                                                    booking[p].checkOut))
                   ELSE (/\ req'[p].op \in {"createGuestBooking", "initializePayment"}
                         /\ Begins(p, req'[p].op))
                        => ((pc'[p] \in {"cgbCreate", "ipCreate"})
                              <=> CheckAvailability(RoomTable(bookings, req'[p].roomId),
                                                    req'[p].roomId, req'[p].checkIn,
                                                    req'[p].checkOut))]_vars

\* a request for room R passed its check while a PAID booking of another room
\* covers the same dates
OtherRoomWitness ==
    \E p \in Procs : \E a \in DOMAIN bookings :
        /\ pc[p] \in {"cgbCreate", "ipCreate"}
        /\ Paid(a) /\ bookings[a].roomId # req[p].roomId
        /\ RangesOverlap(bookings[a], req[p])

\* C22: what is posted to the gateway names a booking that an earlier step
\* stored (PENDING, in the table every operation reads); while the call is
\* outstanding the booking can be deleted by the admin like any other; and a
\* reference is written only by the step after the gateway's answer, into the
\* booking that was posted, and it is the reference the gateway issued.
InitializeOrdering ==
    [][/\ \A c \in gatewayCalls' \ gatewayCalls :
             /\ c.bookingId < nextId
             /\ \E p \in Procs : pc[p] = "ipGateway" /\ booking[p].id = c.bookingId
       /\ \A p \in Procs :
             /\ (pc'[p] = "ipGateway" /\ pc[p] # "ipGateway")
                => (/\ booking'[p].id \in DOMAIN bookings'
                    /\ bookings'[booking'[p].id].status = "PENDING"
                    /\ ~\E c \in gatewayCalls' : c.bookingId = booking'[p].id)
             /\ (pc[p] = "ipGateway" /\ booking[p].id \in DOMAIN bookings)
                => ENABLED DeleteBookingByAdmin(booking[p].id)
       /\ \A id \in Kept :
             bookings'[id].paymentReference # bookings[id].paymentReference
             => \E p \in Procs :
                   /\ pc[p] = "ipSaveRef" /\ booking[p].id = id
                   /\ Posted(id)
                   /\ bookings'[id].paymentReference = booking[p].reference
                   /\ booking[p].reference < nextRef]_vars

\* the gateway call is outstanding and the PENDING booking it is for is stored,
\* without a reference
OutstandingCallWitness ==
    \E p \in Procs :
        /\ pc[p] = "ipGateway"
        /\ booking[p].id \in DOMAIN bookings
        /\ bookings[booking[p].id].status = "PENDING"
        /\ bookings[booking[p].id].paymentReference = NoRef
        /\ ~Posted(booking[p].id)
        /\ nextRef > 1

\* request p takes a step of verifyPaymentAndUpdateBooking
VerifyStep(p) ==
    \/ Begins(p, "verifyPayment")
    \/ (pc[p] \in {"vpLookup", "vpCheck", "vpWrite"} /\ pc'[p] # pc[p])

\* C23: a step of verifyPaymentAndUpdateBooking stores and removes no booking
\* and changes nothing but the status of the booking that carries the event's
\* reference; the other bookings and the other fields of that one stay.
ReconciliationFrame ==
    [][\A p \in Procs :
          VerifyStep(p)
          => (/\ DOMAIN bookings' = DOMAIN bookings
              /\ UNCHANGED <<nextId, nextRef, gatewayCalls>>
              /\ \A id \in DOMAIN bookings :
                    \/ bookings'[id] = bookings[id]
                    \/ (/\ bookings[id].paymentReference = req[p].body.reference
                        /\ bookings'[id] =
                              [bookings[id] EXCEPT !.status = bookings'[id].status]))]_vars

\* an event made its booking FAILED; the PAID booking it lost to is stored with
\* another reference
FrameWitness ==
    \E p \in Procs : \E a \in DOMAIN bookings : \E b \in DOMAIN bookings :
        /\ pc[p] = "done" /\ ValidSuccessEvent(p)
        /\ bookings[a].paymentReference = req[p].body.reference
        /\ bookings[a].status = "FAILED"
        /\ b # a /\ Paid(b)
        /\ bookings[b].paymentReference \notin {NoRef, req[p].body.reference}

\* request p is a correctly signed event of a type other than charge.success
SignedOtherEvent(r) ==
    /\ r.op = "verifyPayment"
    /\ r.signature = Hmac(SecretKey, r.body)
    /\ r.body.event # "charge.success"

\* C26: a correctly signed event whose type is not charge.success returns at
\* once without an error: no booking is looked up, none is changed, and the
\* webhook handler answers 200.
OtherEventsIgnored ==
    [][\A p \in Procs :
          (Begins(p, "verifyPayment") /\ SignedOtherEvent(req'[p]))
          => (/\ pc'[p] = "done"
              /\ booking'[p] = NoBooking
              /\ result'[p] = Ok
              /\ WebhookStatus(result'[p]) = 200
              /\ UNCHANGED <<bookings, nextId, nextRef, gatewayCalls>>)]_vars

\* such an event was answered though a PENDING booking carries its reference
OtherEventWitness ==
    \E p \in Procs : \E a \in DOMAIN bookings :
        /\ pc[p] = "done" /\ SignedOtherEvent(req[p])
        /\ result[p] = Ok
        /\ bookings[a].paymentReference = req[p].body.reference
        /\ bookings[a].status = "PENDING"

\* the step in which createGuestBooking of request p stores its row
GuestRowStored(p) ==
    /\ pc[p] = "cgbCreate"
    /\ nextId \in DOMAIN bookings' \ DOMAIN bookings

\* C24: createGuestBooking stores its booking PENDING and without a reference,
\* and the ranges checkAvailability accepts are the same after it as before; a
\* booking that is not PAID and has no reference is PAID after no step.
GuestBookingNeverPaid ==
    [][/\ \A p \in Procs :
             GuestRowStored(p)
             => (/\ bookings'[nextId].status = "PENDING"
                 /\ bookings'[nextId].paymentReference = NoRef
                 /\ \A roomId \in rooms : \A d \in DateRanges :
                       CheckAvailability(bookings', roomId, d[1], d[2])
                          <=> CheckAvailability(bookings, roomId, d[1], d[2]))
       /\ \A id \in Kept :
             (bookings[id].status # "PAID" /\ bookings[id].paymentReference = NoRef)
             => bookings'[id].status # "PAID"]_vars

\* the gateway has answered an initializePayment with this reference and the
\* booking it was issued for is stored
Issued(reference) ==
    \/ \E id \in DOMAIN bookings : bookings[id].paymentReference = reference
    \/ \E q \in Procs :
          /\ pc[q] = "ipSaveRef"
          /\ booking[q].reference = reference
          /\ booking[q].id \in DOMAIN bookings

\* C25: the lookup of a correctly signed charge.success event whose reference
\* the gateway has issued for a stored booking does not end in the
\* unknown-reference error, whether or not initializePayment has written the
\* reference yet.
NoLostConfirmation ==
    [][\A p \in Procs :
          (/\ pc[p] = "vpLookup" /\ pc'[p] # "vpLookup"
           /\ ValidSuccessEvent(p)
           /\ Issued(req[p].body.reference))
          => result'[p] # NotFoundError(req[p].body.reference)]_vars

\* the ranges that a call of getRoomAvailability returned
Returned(r) == DOMAIN r[2]

\* C27: every range getRoomAvailability returns for a room is the range of a
\* PAID booking of that room and is refused by checkAvailability, and every
\* range that begins at or after the instant of the call and overlaps none of
\* the returned ranges is accepted by checkAvailability.
CalendarAgreesWithChecker ==
    [][\A p \in Procs :
          Begins(p, "getRoomAvailability")
          => LET roomId == req'[p].roomId
                 now == req'[p].now
                 returned == Returned(result'[p]) IN
             /\ \A r \in returned :
                   /\ \E id \in DOMAIN bookings :
                         /\ bookings[id].roomId = roomId
                         /\ bookings[id].status = "PAID"
                         /\ RangeSelect(bookings[id]) = r
                   /\ ~CheckAvailability(bookings, roomId, r.checkIn, r.checkOut)
             /\ \A d \in DateRanges :
                   (/\ d[1] >= now
                    /\ \A r \in returned : ~Overlaps(r, d[1], d[2]))
                   => CheckAvailability(bookings, roomId, d[1], d[2])]_vars
====
